---- MODULE Spec2Model ----
(***************************************************************************)
(* graphviz/backend/rendering.py: render() and the format inference it     *)
(* uses, as a state machine.  One render call is a sequence of steps, one  *)
(* per statement block of the function, so that the order of its checks,   *)
(* its filesystem accesses and its engine invocation is observable.        *)
(*                                                                         *)
(* Strings are sequences of one-character strings (so that lower-casing,   *)
(* suffix search and path parsing are computed, not assumed); an optional  *)
(* value is a sequence of length 0 (None) or 1.                            *)
(***************************************************************************)
EXTENDS Naturals, Sequences, FiniteSets, TLC

\* Number of consecutive render calls (with identical arguments) in one run.
MaxCalls == 2

None == <<>>
Some(x) == <<x>>
IsNone(o) == Len(o) = 0
Val(o) == o[1]

-----------------------------------------------------------------------------
(* Strings *)

\* str.lower(), on the letters the inputs use
LowerChar(c) ==
    CASE c = "P" -> "p"
      [] c = "N" -> "n"
      [] c = "G" -> "g"
      [] c = "D" -> "d"
      [] c = "F" -> "f"
      [] c = "V" -> "v"
      [] OTHER -> c

Lower(s) == [i \in 1..Len(s) |-> LowerChar(s[i])]

\* '.'.join(parts) and '/'.join(parts)
RECURSIVE JoinWith(_, _)
JoinWith(ss, sep) ==
    IF Len(ss) = 0 THEN <<>>
    ELSE IF Len(ss) = 1 THEN ss[1]
    ELSE ss[1] \o <<sep>> \o JoinWith(Tail(ss), sep)

\* str.rfind('.') as a 1-based index, 0 when there is none
RFindDot(s) ==
    LET dots == {i \in 1..Len(s) : s[i] = "."}
    IN IF dots = {} THEN 0 ELSE CHOOSE i \in dots : \A j \in dots : j <= i

\* code point order of the characters the format names use
CharRank(c) ==
    CASE c = "." -> 0
      [] c = "3" -> 1
      [] c = "d" -> 2
      [] c = "f" -> 3
      [] c = "g" -> 4
      [] c = "m" -> 5
      [] c = "n" -> 6
      [] c = "p" -> 7
      [] c = "v" -> 8
      [] OTHER -> 9

\* str.__lt__
RECURSIVE StrLess(_, _)
StrLess(a, b) ==
    IF Len(b) = 0 THEN FALSE
    ELSE IF Len(a) = 0 THEN TRUE
    ELSE IF a[1] = b[1] THEN StrLess(Tail(a), Tail(b))
    ELSE CharRank(a[1]) < CharRank(b[1])

\* sorted(set of strings)
RECURSIVE Sorted(_)
Sorted(S) ==
    IF S = {} THEN <<>>
    ELSE LET m == CHOOSE x \in S : \A y \in S \ {x} : StrLess(x, y)
         IN <<m>> \o Sorted(S \ {m})

-----------------------------------------------------------------------------
(* pathlib.PurePosixPath / Path, as render uses it *)

RECURSIVE SplitFrom(_, _, _)
SplitFrom(s, done, cur) ==
    IF Len(s) = 0 THEN Append(done, cur)
    ELSE IF Head(s) = "/" THEN SplitFrom(Tail(s), Append(done, cur), <<>>)
    ELSE SplitFrom(Tail(s), done, Append(cur, Head(s)))

\* str.split('/')
SplitSlash(s) == SplitFrom(s, <<>>, <<>>)

IsPart(x) == x # <<>> /\ x # <<".">>

\* pathlib.Path(str): root and parts, '' and '.' components dropped
ParsePath(s) ==
    [root |-> Len(s) > 0 /\ s[1] = "/",
     parts |-> SelectSeq(SplitSlash(s), IsPart)]

\* Path.name
PathName(p) == IF Len(p.parts) = 0 THEN <<>> ELSE p.parts[Len(p.parts)]

\* Path.parent
PathParent(p) ==
    IF Len(p.parts) = 0 THEN p
    ELSE [root |-> p.root, parts |-> SubSeq(p.parts, 1, Len(p.parts) - 1)]

\* bool(Path.parts): the root counts as a part
HasParts(p) == p.root \/ Len(p.parts) > 0

\* Path.suffix
PathSuffix(p) ==
    LET name == PathName(p)
        i == RFindDot(name)
    IN IF 1 < i /\ i < Len(name) THEN SubSeq(name, i, Len(name)) ELSE <<>>

\* Path / str
PathJoin(p, q) ==
    IF q.root THEN q ELSE [root |-> p.root, parts |-> p.parts \o q.parts]

\* os.fspath(Path)
Fspath(p) ==
    IF p.root THEN <<"/">> \o JoinWith(p.parts, "/")
    ELSE IF Len(p.parts) = 0 THEN <<".">>
    ELSE JoinWith(p.parts, "/")

\* The current directory of the calling process.
Cwd == [root |-> TRUE, parts |-> << <<"w">> >>]

RECURSIVE Collapse(_, _)
Collapse(done, rest) ==
    IF Len(rest) = 0 THEN done
    ELSE IF rest[1] = <<".", ".">>
         THEN Collapse(IF Len(done) = 0 THEN done
                       ELSE SubSeq(done, 1, Len(done) - 1), Tail(rest))
    ELSE Collapse(Append(done, rest[1]), Tail(rest))

\* Path.resolve() on a filesystem without symbolic links
Resolve(p) ==
    [root |-> TRUE, parts |-> Collapse(<<>>, PathJoin(Cwd, p).parts)]

-----------------------------------------------------------------------------
(* The registry of the parameters package and the default source suffix *)

S_png == <<"p", "n", "g">>
S_PNG == <<"P", "N", "G">>
S_pdf == <<"p", "d", "f">>
S_gv == <<"g", "v">>
S_mp3 == <<"m", "p", "3">>
S_dot == <<"d", "o", "t">>
S_gd == <<"g", "d">>
S_core == <<"c", "o", "r", "e">>

\* parameters.FORMATS (three of its members), ENGINES, RENDERERS, FORMATTERS
FORMATS == {S_png, S_pdf, S_gv}
ENGINES == {S_dot}
RENDERERS == {S_gd}
FORMATTERS == {S_core}

DEFAULT_SOURCE_EXTENSION == S_gv
DOT_BINARY == S_dot

-----------------------------------------------------------------------------
(* Errors and warnings *)

NoErr == [type |-> "", about |-> "", suffixes |-> <<>>]
Err(type, about) == [type |-> type, about |-> about, suffixes |-> <<>>]

get_supported_formats == Sorted(FORMATS)

get_supported_suffixes ==
    [i \in 1..Len(get_supported_formats) |-> <<".">> \o get_supported_formats[i]]

promote_pathlike(filepath) ==
    IF IsNone(filepath) THEN None ELSE Some(ParsePath(Val(filepath)))

\* parameters.verify_format: TRUE when the format is accepted
verify_format(format) == Lower(format) \in FORMATS

\* The result also names the formats verify_format has accepted on the way.
infer_rendering_format_unchecked(outfile) ==
    IF PathSuffix(outfile) = <<>>
    THEN [ok |-> FALSE, value |-> <<>>, verified |-> {},
          err |-> Err("ValueError", "missing suffix")]
    ELSE [ok |-> TRUE, value |-> Lower(Tail(PathSuffix(outfile))),
          verified |-> {}, err |-> NoErr]

infer_rendering_format_no_lower(outfile) ==
    IF PathSuffix(outfile) = <<>>
    THEN [ok |-> FALSE, value |-> <<>>, verified |-> {},
          err |-> Err("ValueError", "missing suffix")]
    ELSE LET format_ == Tail(PathSuffix(outfile))
         IN IF ~verify_format(format_)
            THEN [ok |-> FALSE, value |-> <<>>, verified |-> {},
                  err |-> [type |-> "ValueError", about |-> "unknown format",
                           suffixes |-> get_supported_suffixes]]
            ELSE [ok |-> TRUE, value |-> format_, verified |-> {format_},
                  err |-> NoErr]

infer_rendering_format(outfile) ==
    IF PathSuffix(outfile) = <<>>
    THEN [ok |-> FALSE, value |-> <<>>, verified |-> {},
          err |-> Err("ValueError", "missing suffix")]
    ELSE LET format_ == Lower(Tail(PathSuffix(outfile)))
         IN IF ~verify_format(format_)
            THEN [ok |-> FALSE, value |-> <<>>, verified |-> {},
                  err |-> [type |-> "ValueError", about |-> "unknown format",
                           suffixes |-> get_supported_suffixes]]
            ELSE [ok |-> TRUE, value |-> format_, verified |-> {format_},
                  err |-> NoErr]

get_rendering_format_suffix_wins(outfile, format) ==
    LET r == infer_rendering_format(outfile)
    IN IF ~r.ok
       THEN IF IsNone(format)
            THEN [raised |-> TRUE, verified |-> r.verified, value |-> <<>>, warnings |-> <<>>,
                  err |-> [type |-> "RequiredArgumentError",
                           about |-> "cannot infer rendering format",
                           suffixes |-> get_supported_suffixes]]
            ELSE [raised |-> FALSE, verified |-> r.verified, value |-> Val(format),
                  warnings |-> <<"UnknownSuffixWarning">>, err |-> NoErr]
       ELSE IF ~IsNone(format) /\ Lower(Val(format)) # r.value
            THEN [raised |-> FALSE, verified |-> r.verified, value |-> r.value,
                  warnings |-> <<"FormatSuffixMismatchWarning">>, err |-> NoErr]
            ELSE [raised |-> FALSE, verified |-> r.verified, value |-> r.value,
                  warnings |-> <<>>, err |-> NoErr]

get_rendering_format_no_raise(outfile, format) ==
    LET r == infer_rendering_format(outfile)
    IN IF ~r.ok
       THEN [raised |-> FALSE, verified |-> r.verified,
             value |-> IF IsNone(format) THEN DEFAULT_SOURCE_EXTENSION
                       ELSE Val(format),
             warnings |-> <<"UnknownSuffixWarning">>, err |-> NoErr]
       ELSE IF ~IsNone(format) /\ Lower(Val(format)) # r.value
            THEN [raised |-> FALSE, verified |-> r.verified, value |-> Val(format),
                  warnings |-> <<"FormatSuffixMismatchWarning">>, err |-> NoErr]
            ELSE [raised |-> FALSE, verified |-> r.verified, value |-> r.value,
                  warnings |-> <<>>, err |-> NoErr]

get_rendering_format(outfile, format) ==
    LET r == infer_rendering_format(outfile)
    IN IF ~r.ok
       THEN IF IsNone(format)
            THEN [raised |-> TRUE, verified |-> r.verified, value |-> <<>>, warnings |-> <<>>,
                  err |-> [type |-> "RequiredArgumentError",
                           about |-> "cannot infer rendering format",
                           suffixes |-> get_supported_suffixes]]
            ELSE [raised |-> FALSE, verified |-> r.verified, value |-> Val(format),
                  warnings |-> <<"UnknownSuffixWarning">>, err |-> NoErr]
       ELSE IF ~IsNone(format) /\ Lower(Val(format)) # r.value
            THEN [raised |-> FALSE, verified |-> r.verified, value |-> Val(format),
                  warnings |-> <<"FormatSuffixMismatchWarning">>, err |-> NoErr]
            ELSE [raised |-> FALSE, verified |-> r.verified, value |-> r.value,
                  warnings |-> <<>>, err |-> NoErr]

\* dot_command.command: the checks of the Command Builder, then the prefix
command(engine, format, renderer, formatter) ==
    IF ~IsNone(formatter) /\ IsNone(renderer)
    THEN [raised |-> TRUE, cmd |-> <<>>,
          err |-> Err("RequiredArgumentError", "formatter given without renderer")]
    ELSE IF Lower(engine) \notin ENGINES
    THEN [raised |-> TRUE, cmd |-> <<>>, err |-> Err("ValueError", "unknown engine")]
    ELSE IF ~verify_format(format)
    THEN [raised |-> TRUE, cmd |-> <<>>, err |-> Err("ValueError", "unknown format")]
    ELSE IF ~IsNone(renderer) /\ Lower(Val(renderer)) \notin RENDERERS
    THEN [raised |-> TRUE, cmd |-> <<>>, err |-> Err("ValueError", "unknown renderer")]
    ELSE IF ~IsNone(formatter) /\ Lower(Val(formatter)) \notin FORMATTERS
    THEN [raised |-> TRUE, cmd |-> <<>>, err |-> Err("ValueError", "unknown formatter")]
    ELSE [raised |-> FALSE, err |-> NoErr,
          cmd |-> <<DOT_BINARY,
                    <<"-", "K">> \o engine,
                    <<"-", "T">> \o JoinWith(<<format>> \o renderer \o formatter, ":")>>]

\* Path.with_suffix('.' + ext); fails on an empty name
with_suffix(p, ext) ==
    LET name == PathName(p)
        old == PathSuffix(p)
        stem == SubSeq(name, 1, Len(name) - Len(old))
    IN IF name = <<>>
       THEN [ok |-> FALSE, value |-> p]
       ELSE [ok |-> TRUE,
             value |-> [root |-> p.root,
                        parts |-> SubSeq(p.parts, 1, Len(p.parts) - 1)
                                  \o <<stem \o <<".">> \o ext>>]]

-----------------------------------------------------------------------------
(* The statements of render() *)

same_file_ignores_overwrite(overwrite_filepath, out, src) ==
    /\ PathName(out) = PathName(src)
    /\ Resolve(out) = Resolve(src)

same_file_never(overwrite_filepath, out, src) == FALSE

\* lines 179-180: the condition of the same-file error
same_file(overwrite_filepath, out, src) ==
    /\ ~overwrite_filepath
    /\ PathName(out) = PathName(src)
    /\ Resolve(out) = Resolve(src)

outfile_arg_name_only(out, src) == PathName(out)

\* lines 185-186
outfile_arg(out, src) ==
    IF PathParent(out) # PathParent(src) THEN Fspath(Resolve(out))
    ELSE PathName(out)

suffix_args_command_order(formatter, renderer, fmt) ==
    JoinWith(<<fmt>> \o renderer \o formatter, ".")

\* lines 205-206
suffix_args(formatter, renderer, fmt) ==
    JoinWith(formatter \o renderer \o <<fmt>>, ".")

\* line 208
default_rendered(src, suffix) ==
    PathJoin(PathParent(src), ParsePath(PathName(src) \o <<".">> \o suffix))

result_exists_never(raise_if_result_exists, files, path) == FALSE

\* line 210
result_exists(raise_if_result_exists, files, path) ==
    raise_if_result_exists /\ Resolve(path) \in files

\* line 213
run_cwd(src) ==
    IF HasParts(PathParent(src)) THEN Some(Fspath(PathParent(src))) ELSE None

\* The file a succeeding engine writes: the argument of -o, or with -O the
\* source name with the suffix chain appended, relative to its working directory.
EngineOutput(argv, cwd, a) ==
    LET dir == IF IsNone(cwd) THEN Cwd ELSE PathJoin(Cwd, ParsePath(Val(cwd)))
        n == Len(argv)
    IN IF argv[n-1] = <<"-", "O">>
       THEN Resolve(PathJoin(dir, ParsePath(argv[n] \o <<".">>
                \o JoinWith(a.formatter \o a.renderer \o a.format, "."))))
       ELSE Resolve(PathJoin(dir, ParsePath(argv[n-1])))

-----------------------------------------------------------------------------
(* Inputs *)

R_s_gv == <<"s", ".", "g", "v">>
R_a_s_gv == <<"a", "/", "s", ".", "g", "v">>
R_s_png == <<"s", ".", "p", "n", "g">>
R_w_s_png == <<"/", "w", "/", "s", ".", "p", "n", "g">>
R_s_PNG == <<"s", ".", "P", "N", "G">>
R_s == <<"s">>
R_s_mp3 == <<"s", ".", "m", "p", "3">>
R_a_s_pdf == <<"a", "/", "s", ".", "p", "d", "f">>
R_dot_s_gv == <<".", "/", "s", ".", "g", "v">>
R_a_up_s_png == <<"a", "/", ".", ".", "/", "s", ".", "p", "n", "g">>
R_here == <<".">>

EngineArgs == {S_dot, <<"x">>}
FormatArgs == {None, Some(S_png), Some(S_PNG), Some(S_mp3)}
FilepathArgs == {None, Some(R_s_gv), Some(R_a_s_gv), Some(R_s_png), Some(R_w_s_png)}
OutfileArgs == {None, Some(R_s_png), Some(R_s_PNG), Some(R_s), Some(R_s_mp3),
                Some(R_a_s_pdf), Some(R_dot_s_gv), Some(R_a_up_s_png), Some(R_here)}
RendererArgs == {None, Some(S_gd)}
FormatterArgs == {None, Some(S_core)}

Args == [engine : EngineArgs, format : FormatArgs, filepath : FilepathArgs,
         renderer : RendererArgs, formatter : FormatterArgs, quiet : BOOLEAN,
         outfile : OutfileArgs, raise_if_result_exists : BOOLEAN,
         overwrite_filepath : BOOLEAN]

NoArgs == [engine |-> <<>>, format |-> None, filepath |-> None, renderer |-> None,
           formatter |-> None, quiet |-> FALSE, outfile |-> None,
           raise_if_result_exists |-> FALSE, overwrite_filepath |-> FALSE]

\* What exists before the first call: the current directory alone, or with
\* earlier results in it.
InitialFiles == {{Cwd}, {Cwd, Resolve(ParsePath(R_s_png)),
                         Resolve(ParsePath(R_s_gv \o <<".">> \o S_png))}}

\* Outcomes of execute.run_check
EngineOutcomes == {"ok", "CalledProcessError", "ExecutableNotFound"}

-----------------------------------------------------------------------------
(* State *)

VARIABLES
    pc,          \* the statement of render() to execute next
    args,        \* the arguments of the call
    format,      \* local: format (optional string)
    filepath,    \* local: filepath (optional path)
    outfile,     \* local: outfile (optional path)
    cmd,         \* local: cmd (sequence of strings)
    rendered,    \* local: rendered (optional path)
    warnings,    \* the warning categories emitted by this call
    outcome,     \* how the call ended: returned a string or raised an error
    fs,          \* the paths that exist (resolved)
    trace,       \* path resolutions, existence checks and engine runs, in order
    runs,        \* the calls of execute.run_check made by this call
    built,       \* the calls of dot_command.command made by this call
    validated,   \* the formats this call has passed through verify_format
    history      \* the earlier calls of this run

vars == <<pc, args, format, filepath, outfile, cmd, rendered, warnings, outcome,
          fs, trace, runs, built, validated, history>>

Running == [status |-> "running", value |-> <<>>, err |-> NoErr]
Returned(v) == [status |-> "returned", value |-> v, err |-> NoErr]
Raised(e) == [status |-> "raised", value |-> <<>>, err |-> e]

Init ==
    /\ pc = "idle"
    /\ args = NoArgs
    /\ format = None
    /\ filepath = None
    /\ outfile = None
    /\ cmd = <<>>
    /\ rendered = None
    /\ warnings = <<>>
    /\ outcome = Running
    /\ fs \in InitialFiles
    /\ trace = <<>>
    /\ runs = <<>>
    /\ built = <<>>
    /\ validated = {}
    /\ history = <<>>

\* Entering render(): the locals hold the arguments.
Enter(a) ==
    /\ pc' = "L164"
    /\ args' = a
    /\ format' = a.format
    /\ filepath' = None
    /\ outfile' = None
    /\ cmd' = <<>>
    /\ rendered' = None
    /\ warnings' = <<>>
    /\ outcome' = Running
    /\ trace' = <<>>
    /\ runs' = <<>>
    /\ built' = <<>>
    /\ validated' = {}
    /\ UNCHANGED fs

call ==
    /\ pc = "idle"
    /\ \E a \in Args : Enter(a)
    /\ UNCHANGED history

\* The same call once more, after the previous one has ended.
call_again ==
    /\ pc = "done"
    /\ Len(history) + 1 < MaxCalls
    /\ history' = Append(history, [outcome |-> outcome, runs |-> runs,
                                   warnings |-> warnings])
    /\ Enter(args)


\* A raise leaves render(); nothing else of the call runs.
Raise(e) ==
    /\ outcome' = Raised(e)
    /\ pc' = "done"

render_flags_unchecked ==
    /\ pc = "L164"
    /\ pc' = "L168"
    /\ UNCHANGED <<args, format, filepath, outfile, cmd, rendered, warnings,
                   outcome, fs, trace, runs, built, validated, history>>

\* lines 164-166: the two flags exclude each other
render_flags ==
    /\ pc = "L164"
    /\ IF args.raise_if_result_exists /\ args.overwrite_filepath
       THEN Raise(Err("ValueError", "overwrite_filepath cannot be combined"))
       ELSE pc' = "L168" /\ UNCHANGED outcome
    /\ UNCHANGED <<args, format, filepath, outfile, cmd, rendered, warnings,
                   fs, trace, runs, built, validated, history>>

\* line 168
render_promote ==
    /\ pc = "L168"
    /\ filepath' = promote_pathlike(args.filepath)
    /\ outfile' = promote_pathlike(args.outfile)
    /\ trace' = Append(trace, "promote_pathlike")
    /\ pc' = "L170"
    /\ UNCHANGED <<args, format, cmd, rendered, warnings, outcome, fs, runs,
                   built, validated, history>>

\* lines 170-171: explicit-output mode, the format from outfile and format
render_format ==
    /\ pc = "L170"
    /\ ~IsNone(outfile)
    /\ LET r == get_rendering_format(Val(outfile), format)
       IN /\ warnings' = warnings \o r.warnings
          /\ validated' = validated \cup r.verified
          /\ IF r.raised
             THEN Raise(r.err) /\ UNCHANGED format
             ELSE format' = Some(r.value) /\ pc' = "L173" /\ UNCHANGED outcome
    /\ trace' = Append(trace, "get_rendering_format")
    /\ UNCHANGED <<args, filepath, outfile, cmd, rendered, fs, runs, built, history>>

\* lines 173-174
render_command ==
    /\ pc = "L173"
    /\ LET c == command(args.engine, Val(format), args.renderer, args.formatter)
       IN /\ built' = Append(built, [format |-> Val(format),
                                     prevalidated |-> Val(format) \in validated])
          /\ IF c.raised
             THEN Raise(c.err) /\ UNCHANGED cmd
             ELSE cmd' = c.cmd /\ pc' = "L176" /\ UNCHANGED outcome
    /\ UNCHANGED <<args, format, filepath, outfile, rendered, warnings, fs,
                   trace, runs, validated, history>>

\* lines 176-177: the source path derived from outfile
render_source ==
    /\ pc = "L176"
    /\ IF IsNone(filepath)
       THEN LET w == with_suffix(Val(outfile), DEFAULT_SOURCE_EXTENSION)
            IN IF w.ok
               THEN filepath' = Some(w.value) /\ pc' = "L179" /\ UNCHANGED outcome
               ELSE Raise(Err("ValueError", "empty name")) /\ UNCHANGED filepath
       ELSE pc' = "L179" /\ UNCHANGED <<filepath, outcome>>
    /\ UNCHANGED <<args, format, outfile, cmd, rendered, warnings, fs, trace,
                   runs, built, validated, history>>

\* lines 179-183: outfile must not be the source file
render_collision ==
    /\ pc = "L179"
    /\ trace' = IF ~args.overwrite_filepath
                   /\ PathName(Val(outfile)) = PathName(Val(filepath))
                THEN trace \o <<"resolve", "resolve">> ELSE trace
    /\ IF same_file(args.overwrite_filepath, Val(outfile), Val(filepath))
       THEN Raise(Err("ValueError", "outfile must be different from input file"))
       ELSE pc' = "L185" /\ UNCHANGED outcome
    /\ UNCHANGED <<args, format, filepath, outfile, cmd, rendered, warnings, fs,
                   runs, built, validated, history>>

\* lines 185-191
render_outfile_arg ==
    /\ pc = "L185"
    /\ trace' = IF PathParent(Val(outfile)) # PathParent(Val(filepath))
                THEN Append(trace, "resolve") ELSE trace
    /\ cmd' = cmd \o <<<<"-", "o">>, outfile_arg(Val(outfile), Val(filepath)),
                       PathName(Val(filepath))>>
    /\ rendered' = outfile
    /\ pc' = "L210"
    /\ UNCHANGED <<args, format, filepath, outfile, warnings, outcome, fs, runs,
                   built, validated, history>>

\* lines 192-197: default-naming mode needs format and filepath
render_required ==
    /\ pc = "L170"
    /\ IsNone(outfile)
    /\ IF IsNone(format)
       THEN Raise(Err("RequiredArgumentError", "format"))
       ELSE IF IsNone(filepath)
       THEN Raise(Err("RequiredArgumentError", "filepath"))
       ELSE pc' = "L199" /\ UNCHANGED outcome
    /\ UNCHANGED <<args, format, filepath, outfile, cmd, rendered, warnings, fs,
                   trace, runs, built, validated, history>>

\* lines 199-208
render_default ==
    /\ pc = "L199"
    /\ LET c == command(args.engine, Val(format), args.renderer, args.formatter)
       IN /\ built' = Append(built, [format |-> Val(format),
                                     prevalidated |-> Val(format) \in validated])
          /\ IF c.raised
             THEN Raise(c.err) /\ UNCHANGED <<cmd, rendered>>
             ELSE /\ cmd' = c.cmd \o <<<<"-", "O">>, PathName(Val(filepath))>>
                  /\ rendered' = Some(default_rendered(Val(filepath),
                        suffix_args(args.formatter, args.renderer, Val(format))))
                  /\ pc' = "L210"
                  /\ UNCHANGED outcome
    /\ UNCHANGED <<args, format, filepath, outfile, warnings, fs, trace, runs,
                   validated, history>>

\* lines 210-211
render_exists ==
    /\ pc = "L210"
    /\ trace' = IF args.raise_if_result_exists THEN Append(trace, "exists")
                ELSE trace
    /\ IF result_exists(args.raise_if_result_exists, fs, Val(rendered))
       THEN Raise(Err("FileExistsError", "output file exists"))
       ELSE pc' = "L213" /\ UNCHANGED outcome
    /\ UNCHANGED <<args, format, filepath, outfile, cmd, rendered, warnings, fs,
                   runs, built, validated, history>>

\* lines 213-216: the engine runs in the directory of the source file
render_run ==
    /\ pc = "L213"
    /\ \E e \in EngineOutcomes :
          /\ runs' = Append(runs, [cmd |-> cmd, cwd |-> run_cwd(Val(filepath)),
                                   quiet |-> args.quiet, capture_output |-> TRUE,
                                   result |-> e])
          /\ IF e = "ok"
             THEN /\ fs' = fs \cup {EngineOutput(cmd, run_cwd(Val(filepath)), args)}
                  /\ pc' = "L218"
                  /\ UNCHANGED outcome
             ELSE Raise(Err(e, "engine")) /\ UNCHANGED fs
    /\ trace' = Append(trace, "run_check")
    /\ UNCHANGED <<args, format, filepath, outfile, cmd, rendered, warnings,
                   built, validated, history>>

\* line 218
render_return ==
    /\ pc = "L218"
    /\ outcome' = Returned(Fspath(Val(rendered)))
    /\ pc' = "done"
    /\ UNCHANGED <<args, format, filepath, outfile, cmd, rendered, warnings, fs,
                   trace, runs, built, validated, history>>

Next ==
    \/ call
    \/ call_again
    \/ render_flags
    \/ render_promote
    \/ render_format
    \/ render_command
    \/ render_source
    \/ render_collision
    \/ render_outfile_arg
    \/ render_required
    \/ render_default
    \/ render_exists
    \/ render_run
    \/ render_return

Spec == Init /\ [][Next]_vars

-----------------------------------------------------------------------------
(* What the claims speak of, computed from the arguments of the call *)

InCall == pc # "idle"
BothFlags == args.raise_if_result_exists /\ args.overwrite_filepath
ExplicitMode == InCall /\ ~IsNone(args.outfile)
DefaultMode == InCall /\ IsNone(args.outfile)

\* the output path, and its suffix without the dot, lower-cased
ArgOut == ParsePath(Val(args.outfile))
ArgSuffix == Lower(Tail(PathSuffix(ArgOut)))
SuffixSupported == PathSuffix(ArgOut) # <<>> /\ ArgSuffix \in FORMATS

\* the source path, given or derived from the output path
ArgSrc ==
    IF IsNone(args.filepath)
    THEN with_suffix(ArgOut, DEFAULT_SOURCE_EXTENSION).value
    ELSE ParsePath(Val(args.filepath))

Collide == PathName(ArgOut) = PathName(ArgSrc) /\ Resolve(ArgOut) = Resolve(ArgSrc)

\* the state right after lines 170-171 have run in explicit-output mode
AfterFormat ==
    /\ ExplicitMode
    /\ built = <<>>
    /\ Len(trace) >= 2
    /\ trace[Len(trace)] = "get_rendering_format"

IsLower(str) == str = Lower(str)
RaisedWith(about) == outcome.status = "raised" /\ outcome.err.about = about
EngineError == outcome.err.type \in {"CalledProcessError", "ExecutableNotFound"}

-----------------------------------------------------------------------------
(* C1 *)

\* C1: whatever the other arguments are, a call with both raise_if_result_exists
\* and overwrite_filepath set ends with the mutual-exclusion ValueError, and up to
\* then no path has been promoted or resolved, no existence check made, no
\* command built and no engine run.
C1_FlagsCheckedFirst ==
    (InCall /\ BothFlags) =>
        /\ pc \in {"L164", "done"}
        /\ trace = <<>>
        /\ runs = <<>>
        /\ built = <<>>
        /\ filepath = None /\ outfile = None
        /\ pc = "done" =>
              outcome = Raised(Err("ValueError", "overwrite_filepath cannot be combined"))

\* Both flags, an output path equal to the source path, and the result file
\* already present: the call has ended with the mutual-exclusion error.
C1_Witness ==
    /\ pc = "done" /\ BothFlags
    /\ args.outfile = Some(R_s_png) /\ args.filepath = Some(R_s_png)
    /\ Resolve(ArgOut) \in fs
    /\ RaisedWith("overwrite_filepath cannot be combined")

-----------------------------------------------------------------------------
(* C2 *)

\* C2: when the output suffix (dot stripped, lower-cased) is a supported format X,
\* get_rendering_format returns X without a warning if no format is given or the
\* given format equals X ignoring case, and otherwise warns of the format/suffix
\* mismatch and returns the given format.
C2_SupportedSuffix ==
    (AfterFormat /\ SuffixSupported) =>
        /\ pc = "L173"
        /\ IF IsNone(args.format) \/ Lower(Val(args.format)) = ArgSuffix
           THEN format = Some(ArgSuffix) /\ warnings = <<>>
           ELSE format = args.format
                /\ warnings = <<"FormatSuffixMismatchWarning">>

\* s.PNG with no format gives png; a/s.pdf with format png warns and gives png.
C2_Witness ==
    /\ AfterFormat
    /\ args.outfile = Some(R_a_s_pdf) /\ args.format = Some(S_png)
    /\ format = Some(S_png)
    /\ warnings = <<"FormatSuffixMismatchWarning">>

-----------------------------------------------------------------------------
(* C3 *)

\* C3: when the output suffix is empty or not a supported format,
\* get_rendering_format raises RequiredArgumentError naming the supported
\* suffixes if no format is given, and render then ends without building a
\* command or running the engine; with a format given it warns of the unknown
\* suffix and returns that format.
C3_UnknownSuffix ==
    /\ (AfterFormat /\ ~SuffixSupported) =>
          IF IsNone(args.format)
          THEN /\ pc = "done"
               /\ outcome.status = "raised"
               /\ outcome.err.type = "RequiredArgumentError"
               /\ outcome.err.suffixes =
                     << <<".", "g", "v">>, <<".", "p", "d", "f">>,
                        <<".", "p", "n", "g">> >>
          ELSE /\ pc = "L173"
               /\ format = args.format
               /\ warnings = <<"UnknownSuffixWarning">>
    /\ (pc = "done" /\ RaisedWith("cannot infer rendering format")) =>
          /\ ExplicitMode /\ ~SuffixSupported /\ IsNone(args.format)
          /\ cmd = <<>> /\ built = <<>> /\ runs = <<>>

\* An output path without a suffix and no format: the call has ended with the
\* missing-argument error.
C3_Witness ==
    /\ pc = "done"
    /\ args.outfile = Some(R_s) /\ IsNone(args.format)
    /\ RaisedWith("cannot infer rendering format")

-----------------------------------------------------------------------------
(* C4 *)

\* the call has come to the same-file check of lines 179-183
ReachedCollisionCheck ==
    /\ ExplicitMode
    /\ pc = "done"
    /\ cmd # <<>>
    /\ ~RaisedWith("empty name")

\* C4: in explicit-output mode, source given or derived, a call that comes to the
\* same-file check ends with the same-file ValueError, the engine not run,
\* exactly when overwrite_filepath is not set and outfile has the name and the
\* resolved path of the source; with overwrite_filepath set the same call runs the
\* engine and, the engine succeeding, returns the output path.
C4_SameFile ==
    ReachedCollisionCheck =>
        /\ RaisedWith("outfile must be different from input file")
              <=> (~args.overwrite_filepath /\ Collide)
        /\ RaisedWith("outfile must be different from input file") =>
              (outcome.err.type = "ValueError" /\ runs = <<>>)
        /\ (args.overwrite_filepath /\ Collide) =>
              /\ Len(runs) = 1
              /\ runs[1].result = "ok" => outcome = Returned(Fspath(ArgOut))

\* outfile ./s.gv without a source path: the derived source is the same file.
C4_Witness ==
    /\ pc = "done"
    /\ args.outfile = Some(R_dot_s_gv) /\ IsNone(args.filepath)
    /\ ~args.overwrite_filepath
    /\ RaisedWith("outfile must be different from input file")
    /\ runs = <<>>

-----------------------------------------------------------------------------
(* C5 *)

C5_Components ==
    (IF IsNone(args.formatter) THEN <<>> ELSE <<Val(args.formatter)>>)
    \o (IF IsNone(args.renderer) THEN <<>> ELSE <<Val(args.renderer)>>)
    \o <<Val(args.format)>>

\* source directory + '/' + source name + '.' + components joined by dots
C5_Expected ==
    LET src == ParsePath(Val(args.filepath))
        dir == PathParent(src)
        full == PathName(src) \o <<".">> \o JoinWith(C5_Components, ".")
    IN IF ~HasParts(dir) THEN full
       ELSE IF Len(dir.parts) = 0 THEN <<"/">> \o full
       ELSE Fspath(dir) \o <<"/">> \o full

\* C5: in default-naming mode the result path is the source directory joined with
\* the source name, a dot and the non-null ones of formatter, renderer, format
\* joined by dots in that order, and the command handed to the engine ends with
\* -O and the bare source file name.
C5_DefaultNaming ==
    DefaultMode =>
        /\ ~IsNone(rendered) => Fspath(Val(rendered)) = C5_Expected
        /\ (pc = "done" /\ outcome.status = "returned") =>
              outcome.value = C5_Expected
        /\ \A i \in 1..Len(runs) :
              LET argv == runs[i].cmd
              IN /\ argv[Len(argv) - 1] = <<"-", "O">>
                 /\ argv[Len(argv)] = PathName(ParsePath(Val(args.filepath)))

\* a/s.gv rendered to png with renderer gd and formatter core
C5_Witness ==
    /\ pc = "done" /\ DefaultMode
    /\ args.filepath = Some(R_a_s_gv) /\ args.format = Some(S_png)
    /\ args.renderer = Some(S_gd) /\ args.formatter = Some(S_core)
    /\ outcome = Returned(<<"a", "/", "s", ".", "g", "v", ".", "c", "o", "r", "e",
                            ".", "g", "d", ".", "p", "n", "g">>)

-----------------------------------------------------------------------------
(* C6 *)

EngineSucceeded(rs) == \A i \in 1..Len(rs) : rs[i].result = "ok"

\* C6: of two consecutive calls with identical arguments whose engine runs all
\* succeed, the second returns the result path of the first when
\* raise_if_result_exists is not set; when it is set and the first call returned,
\* the second ends with FileExistsError and does not run the engine; and a call
\* ends with FileExistsError only when the flag is set and a file is at the
\* result path, so not a first call with nothing there.
C6_CalledTwice ==
    /\ (pc = "done" /\ Len(history) >= 1) =>
          LET first == history[Len(history)]
          IN (EngineSucceeded(first.runs) /\ EngineSucceeded(runs)
              /\ first.outcome.status = "returned") =>
                IF args.raise_if_result_exists
                THEN /\ outcome.status = "raised"
                     /\ outcome.err.type = "FileExistsError"
                     /\ runs = <<>>
                ELSE outcome = first.outcome
    /\ (pc = "done" /\ outcome.err.type = "FileExistsError") =>
          /\ args.raise_if_result_exists
          /\ Resolve(Val(rendered)) \in fs
          /\ runs = <<>>

\* raise_if_result_exists set, nothing there at first: the first call returned
\* s.png after one engine run, the second ended with FileExistsError.
C6_Witness ==
    /\ pc = "done" /\ Len(history) = 1
    /\ args.raise_if_result_exists
    /\ args.outfile = Some(R_s_png)
    /\ history[1].outcome = Returned(R_s_png)
    /\ Len(history[1].runs) = 1
    /\ outcome.err.type = "FileExistsError"
    /\ runs = <<>>

-----------------------------------------------------------------------------
(* C7 *)

\* every check render makes before the engine runs, from the arguments
PreChecksPass ==
    /\ ~BothFlags
    /\ DefaultMode => (~IsNone(args.format) /\ ~IsNone(args.filepath))
    /\ ExplicitMode => (SuffixSupported \/ ~IsNone(args.format))
    /\ ~(~IsNone(args.formatter) /\ IsNone(args.renderer))
    /\ Lower(args.engine) \in ENGINES
    /\ ~IsNone(format) /\ Lower(Val(format)) \in FORMATS
    /\ ExplicitMode => ~(~args.overwrite_filepath /\ Collide)
    /\ ~IsNone(rendered)
    /\ ~(args.raise_if_result_exists /\ Resolve(Val(rendered)) \in fs)

\* C7: execute.run_check is called at most once per render call and only when
\* every pre-execution check passes; a call that ends with an error other than
\* an engine error has not called it.
C7_RunOnceAfterChecks ==
    /\ [][Len(runs') > Len(runs) =>
            (runs = <<>> /\ Len(runs') = 1 /\ PreChecksPass)]_vars
    /\ []((pc = "done" /\ outcome.status = "raised" /\ ~EngineError) => runs = <<>>)

\* A call that ended with FileExistsError, the engine not run.
C7_Witness ==
    /\ pc = "done" /\ history = <<>>
    /\ outcome.err.type = "FileExistsError"
    /\ trace[Len(trace)] = "exists"
    /\ runs = <<>>

-----------------------------------------------------------------------------
(* C8 *)

\* C8 as stated: the format get_rendering_format returns, which render passes to
\* the Command Builder in explicit-output mode, is lower-case.
C8_AlwaysLower ==
    /\ (AfterFormat /\ pc = "L173") => IsLower(Val(format))
    /\ ExplicitMode => \A i \in 1..Len(built) : IsLower(built[i].format)

\* C8 amended: the returned format is lower-case when it is inferred from the
\* suffix (no format given, or the given one equal to the suffix ignoring case)
\* or when the given format is lower-case; a given format that is returned
\* (unknown suffix, mismatch) comes back in the letter case it was given in.
C8_LowerUnlessExplicit ==
    (AfterFormat /\ pc = "L173") =>
        /\ (IsNone(args.format) \/ IsLower(Val(args.format))) => IsLower(Val(format))
        /\ (SuffixSupported /\ ~IsNone(args.format)
            /\ Lower(Val(args.format)) = ArgSuffix) => IsLower(Val(format))
        /\ ~IsLower(Val(format)) => format = args.format

\* s.PNG with no format given: png comes back.
C8_Witness ==
    /\ AfterFormat /\ pc = "L173"
    /\ args.outfile = Some(R_s_PNG) /\ IsNone(args.format)
    /\ format = Some(S_png)

-----------------------------------------------------------------------------
(* C9 *)

\* C9 as stated: every format passed to the Command Builder has been validated
\* against the supported formats before the Command Builder is called.
C9_ValidatedBefore == \A i \in 1..Len(built) : built[i].prevalidated

\* C9 amended: the format passed to the Command Builder has been validated
\* before the call exactly when it was inferred from a supported output suffix
\* (no format given, or the given one equal to the suffix ignoring case); a given
\* format used as fallback or override, and the format of default-naming mode,
\* reach the Command Builder unvalidated.
C9_ValidatedWhenInferred ==
    \A i \in 1..Len(built) :
        built[i].prevalidated <=>
           (ExplicitMode /\ SuffixSupported
            /\ (IsNone(args.format) \/ Lower(Val(args.format)) = ArgSuffix))

\* s.png with no format given: png was validated before the command was built.
C9_Witness ==
    /\ built # <<>> /\ cmd # <<>>
    /\ args.outfile = Some(R_s_png) /\ IsNone(args.format)
    /\ built[1] = [format |-> S_png, prevalidated |-> TRUE]

-----------------------------------------------------------------------------
(* C10 *)

\* the directory the engine runs in
RunDir(r) == IF IsNone(r.cwd) THEN Cwd ELSE PathJoin(Cwd, ParsePath(Val(r.cwd)))

\* C10: in explicit-output mode the engine is told to write the file the result
\* path names: with outfile and source in the same parent directory the -o
\* argument is the bare output name, otherwise outfile resolved to absolute form;
\* the engine runs in the directory of the source (None when it has none); the -o
\* argument taken relative to that directory is the returned output path.
C10_OutputArgument ==
    ExplicitMode =>
        \A i \in 1..Len(runs) :
            LET argv == runs[i].cmd
                n == Len(argv)
                arg == argv[n - 1]
            IN /\ argv[n - 2] = <<"-", "o">>
               /\ argv[n] = PathName(ArgSrc)
               /\ IF PathParent(ArgOut) = PathParent(ArgSrc)
                  THEN arg = PathName(ArgOut)
                  ELSE arg = Fspath(Resolve(ArgOut))
               /\ runs[i].cwd = IF HasParts(PathParent(ArgSrc))
                                THEN Some(Fspath(PathParent(ArgSrc))) ELSE None
               /\ Resolve(PathJoin(RunDir(runs[i]), ParsePath(arg))) = Resolve(ArgOut)
               /\ (pc = "done" /\ outcome.status = "returned") =>
                     /\ outcome.value = Fspath(ArgOut)
                     /\ Resolve(ParsePath(outcome.value))
                           = Resolve(PathJoin(RunDir(runs[i]), ParsePath(arg)))

\* a/s.pdf rendered from s.gv: the engine runs in the current directory and is
\* given the absolute /w/a/s.pdf.
C10_Witness ==
    /\ pc = "done" /\ outcome = Returned(R_a_s_pdf)
    /\ args.filepath = Some(R_s_gv)
    /\ Len(runs) = 1
    /\ runs[1].cwd = None
    /\ runs[1].cmd[Len(runs[1].cmd) - 1] = <<"/", "w", "/", "a", "/", "s", ".", "p", "d", "f">>

====
